---- MODULE Spec2Model ----
(***************************************************************************)
(* Model of the deep-research MCP server (src/src/mcp-server.ts):          *)
(*   - the deepResearch.run tool handler: cache key, LRU/TTL result cache, *)
(*     research pipeline call, report fallback, size computation, delivery *)
(*     mode decision, GCS upload, cache write;                             *)
(*   - the HTTP surface: apiKeyAuth, GET /health, the methods of /mcp,     *)
(*     GET /sse, POST /messages and the SSE session registry;              *)
(*   - the computation of the cache TTL when the module is loaded.         *)
(*                                                                         *)
(* Strings are modelled by what the code reads of them: a report body by   *)
(* its origin tag and its UTF-8 byte length, a header value or API key by  *)
(* the sequence of its pieces.  An optional value is a sequence of length  *)
(* 0 (undefined) or 1.  The node event loop runs a handler from one await  *)
(* to the next without interleaving, so each action is one such stretch.   *)
(***************************************************************************)
EXTENDS Integers, Sequences, FiniteSets, TLC

VARIABLES
  isHttpMode,     \* process.env.MCP_HTTP_MODE === 'true'
  now,            \* the clock (ms) read by the cache
  cache,          \* deepResearchCache: entries in recency order, head = least recent
  pc,             \* per tool call: position in the handler
  args,           \* per tool call: the destructured tool input
  result,         \* per tool call: what research() resolved with
  reportContent,  \* per tool call: the local reportContent
  ret,            \* per tool call: the object the handler returned
  lookup,         \* per tool call: what the cache check found (hit / absent / stale)
  doneAt,         \* per tool call: clock value when the handler returned
  gcsError,       \* per tool call: the inner catch (gcsError) was taken
  researchCalls,  \* number of research() invocations so far
  uploadCalls,    \* number of uploadReportToGCS() invocations so far
  apiKey,         \* process.env.MCP_API_KEY, <<>> when unset or empty
  sseTransports,  \* the Map sessionId -> transport (the transport's connection)
  sse,            \* the SSE connections accepted so far, in order
  mcp,            \* the POST /mcp exchanges accepted so far, in order
  uuids,          \* number of randomUUID() values drawn so far
  servers,        \* number of createServer() calls so far
  dispatched,     \* number of messages handed to a protocol server
  lookups,        \* number of sseTransports.get() calls so far
  reqCount,       \* number of HTTP requests received so far
  lastReq,        \* the HTTP request received last
  lastRes,        \* what was answered to it by the end of its handler
  ttlEnv,         \* process.env.PROVIDER_CACHE_TTL_MS as the process was started
  ttlMs,          \* MCP_CACHE_TTL_MS once the module has been loaded
  toolArgs        \* the arguments objects of the tool calls about to arrive

toolVars == <<isHttpMode, now, cache, pc, args, result, reportContent, ret,
              lookup, doneAt, gcsError, researchCalls, uploadCalls>>

httpVars == <<apiKey, sseTransports, sse, mcp, uuids, servers, dispatched,
              lookups, reqCount, lastReq, lastRes>>

envVars == <<ttlEnv, ttlMs, toolArgs>>

vars == <<toolVars, httpVars, envVars>>

----------------------------------------------------------------------------
(* Bounds of the model *)

MaxCalls == 2

Calls == 1..MaxCalls

MaxRequests == 2

----------------------------------------------------------------------------
(* Program constants *)

\* parseInt(process.env.PROVIDER_CACHE_TTL_MS || '600000'), default configuration
MCP_CACHE_TTL_MS == 600000

\* new LRUCache({ max: 50, ... })
LRU_MAX == 50

\* const SIZE_THRESHOLD_KB = 50
SIZE_THRESHOLD_KB == 50

UPLOAD_ERROR_MARKER == <<"ERROR: Failed to upload report to cloud storage">>

----------------------------------------------------------------------------
(* Values *)

Undefined == <<>>
Some(v) == <<v>>

\* A string seen through its origin and its UTF-8 byte length.
Text(tag, bytes) == [tag |-> tag, bytes |-> bytes]
NoText == Text("undefined", 0)
EmptyText == Text("", 0)

\* JS truthiness of a string-or-undefined value: only undefined and '' are falsy.
Falsy(t) == t.bytes = 0

\* The same for an optional path: undefined and '' are falsy.
NoPath(p) == p = Undefined \/ p = Some("")

\* "Error reading report file." and "# Error: No report content generated."
ReadErrorBody == Text("Error reading report file.", 26)
NoContentBody == Text("# Error: No report content generated.", 37)

NoArgs == [query |-> "", depth |-> Undefined, breadth |-> Undefined,
           existingLearnings |-> <<>>]

NoResearch == [content |-> NoText, reportPath |-> Undefined,
               learnings |-> <<>>, visitedUrls |-> <<>>]

NoReturn == [oid |-> 0,
             content |-> <<>>,
             metadata |-> [learnings |-> <<>>, visitedUrls |-> <<>>,
                           stats |-> [totalLearnings |-> 0, totalSources |-> 0],
                           reportUrl |-> Undefined, reportSizeKB |-> Undefined]]

----------------------------------------------------------------------------
(* hashKey({ query, depth, breadth, existingLearnings }) *)

\* JSON.stringify of one property: a property whose value is undefined is omitted.
JsonProp(name, opt) == IF opt = Undefined THEN <<>> ELSE << <<name, opt[1]>> >>

\* Variant of JsonStringify that leaves the breadth property out of the text.
JsonStringifyNoBreadth(o) ==
  << <<"query", o.query>> >> \o JsonProp("depth", o.depth)
    \o << <<"existingLearnings", o.existingLearnings>> >>

\* JSON.stringify of the object literal built at the call site: properties in the
\* literal's order; existingLearnings is always an array here (default []).
JsonStringify(o) ==
  << <<"query", o.query>> >> \o JsonProp("depth", o.depth)
    \o JsonProp("breadth", o.breadth)
    \o << <<"existingLearnings", o.existingLearnings>> >>

\* sha256 digest, taken as collision-free: the digest stands for the text hashed.
hashKey(o) == <<"sha256", JsonStringify(o)>>

\* The handler's parameter destructuring: existingLearnings = [] when omitted.
Destructure(input) ==
  [query |-> input.query, depth |-> input.depth, breadth |-> input.breadth,
   existingLearnings |-> IF input.existingLearnings = Undefined THEN <<>>
                         ELSE input.existingLearnings[1]]

----------------------------------------------------------------------------
(* MCP_CACHE_TTL_MS = Math.max(1000, Math.min(86_400_000,
     parseInt(process.env.PROVIDER_CACHE_TTL_MS || '600000', 10)))  (line 77).
   An environment string is the sequence of its characters; a JS number is
   either NaN or an integer value. *)

TTL_MIN == 1000

TTL_MAX == 86400000

NaN == [nan |-> TRUE, val |-> 0]
Num(n) == [nan |-> FALSE, val |-> n]

DigitChars == <<"0", "1", "2", "3", "4", "5", "6", "7", "8", "9">>
IsDigit(ch) == \E i \in 1..10 : DigitChars[i] = ch
DigitVal(ch) == (CHOOSE i \in 1..10 : DigitChars[i] = ch) - 1

\* StrWhiteSpaceChar, the characters parseInt skips: TAB, LF, VT, FF, CR, SP,
\* NBSP, BOM, the line and paragraph separators and the space separators (Zs).
\* A character a string literal cannot hold is written as its JS escape.
WhiteSpace ==
  {" ", "\t", "\n", "\r", "\f", "\\v", "\\u00a0", "\\ufeff", "\\u2028", "\\u2029",
   "\\u1680", "\\u2000", "\\u2001", "\\u2002", "\\u2003", "\\u2004", "\\u2005",
   "\\u2006", "\\u2007", "\\u2008", "\\u2009", "\\u200a", "\\u202f", "\\u205f",
   "\\u3000"}

\* '600000'
DefaultTtlText == <<"6", "0", "0", "0", "0", "0">>

\* process.env.X || '600000': an unset variable and the empty string are falsy.
OrDefault(env) == IF env = Undefined \/ env = Some(<<>>) THEN DefaultTtlText ELSE env[1]

RECURSIVE SkipWhiteSpace(_)
SkipWhiteSpace(s) ==
  IF s # <<>> /\ Head(s) \in WhiteSpace THEN SkipWhiteSpace(Tail(s)) ELSE s

\* The value of the longest prefix of decimal digits of s, continuing from acc.
RECURSIVE DigitsPrefix(_, _)
DigitsPrefix(s, acc) ==
  IF s # <<>> /\ IsDigit(Head(s))
    THEN DigitsPrefix(Tail(s), acc * 10 + DigitVal(Head(s)))
    ELSE acc

\* parseInt(text, 10): leading white space is skipped, one sign is accepted, the
\* digits that follow are read and the rest is ignored; no digit gives NaN.
ParseInt(text) ==
  LET s == SkipWhiteSpace(text)
      signed == s # <<>> /\ Head(s) \in {"-", "+"}
      body == IF signed THEN Tail(s) ELSE s
  IN IF body = <<>> \/ ~IsDigit(Head(body)) THEN NaN
     ELSE IF signed /\ Head(s) = "-" THEN Num(0 - DigitsPrefix(body, 0))
     ELSE Num(DigitsPrefix(body, 0))

\* Math.min and Math.max: NaN if either argument is NaN.
MathMin(a, b) ==
  IF a.nan \/ b.nan THEN NaN ELSE IF a.val <= b.val THEN a ELSE b
MathMax(a, b) ==
  IF a.nan \/ b.nan THEN NaN ELSE IF a.val >= b.val THEN a ELSE b

\* The value MCP_CACHE_TTL_MS is initialised with.
CacheTtl(env) == MathMax(Num(TTL_MIN), MathMin(Num(TTL_MAX), ParseInt(OrDefault(env))))

----------------------------------------------------------------------------
(* deepResearchCache: LRUCache({ max, ttl }) *)

RemoveAt(s, i) == SubSeq(s, 1, i - 1) \o SubSeq(s, i + 1, Len(s))

LruIndex(ch, k) ==
  IF \E i \in 1..Len(ch) : ch[i].key = k
    THEN CHOOSE i \in 1..Len(ch) : ch[i].key = k
    ELSE 0

\* Always-fresh variant of LruIsStale: an entry never expires.
LruIsStaleNever(e, t) == FALSE

\* Off-by-one variant of LruIsStale: an entry expires once its age reaches the TTL.
LruIsStaleEarly(e, t) == t - e.start >= MCP_CACHE_TTL_MS

\* An entry is stale once its age exceeds the ttl.
LruIsStale(e, t) == t - e.start > MCP_CACHE_TTL_MS

\* Variant of LruGet in which a hit leaves the recency order as it was.
LruGetKeepsOrder(ch, k, t) ==
  LET i == LruIndex(ch, k) IN
    IF i = 0
      THEN [cache |-> ch, hit |-> FALSE, value |-> NoReturn, found |-> "absent"]
    ELSE IF LruIsStale(ch[i], t)
      THEN [cache |-> RemoveAt(ch, i), hit |-> FALSE, value |-> NoReturn,
            found |-> "stale"]
    ELSE [cache |-> ch, hit |-> TRUE, value |-> ch[i].value, found |-> "hit"]

\* cache.get(k): a stale entry is deleted and reported absent; a fresh one is
\* moved to the most-recent end; its age is not refreshed.
LruGet(ch, k, t) ==
  LET i == LruIndex(ch, k) IN
    IF i = 0
      THEN [cache |-> ch, hit |-> FALSE, value |-> NoReturn, found |-> "absent"]
    ELSE IF LruIsStale(ch[i], t)
      THEN [cache |-> RemoveAt(ch, i), hit |-> FALSE, value |-> NoReturn,
            found |-> "stale"]
    ELSE [cache |-> Append(RemoveAt(ch, i), ch[i]), hit |-> TRUE,
          value |-> ch[i].value, found |-> "hit"]

\* Variant of LruSet in which a key already present keeps its entry.
LruSetKeepsFirst(ch, k, v, t) ==
  LET i == LruIndex(ch, k)
      e == [key |-> k, value |-> v, start |-> t]
  IN IF i # 0 THEN ch
     ELSE IF Len(ch) >= LRU_MAX THEN Append(Tail(ch), e)
     ELSE Append(ch, e)

\* cache.set(k, v): an existing key is replaced and its age reset; a new key in a
\* full cache evicts the least recently used entry.
LruSet(ch, k, v, t) ==
  LET i == LruIndex(ch, k)
      e == [key |-> k, value |-> v, start |-> t]
  IN IF i # 0 THEN Append(RemoveAt(ch, i), e)
     ELSE IF Len(ch) >= LRU_MAX THEN Append(Tail(ch), e)
     ELSE Append(ch, e)

----------------------------------------------------------------------------
(* Report body, size and delivery mode *)

\* Variant of ReportBody without the last fallback: a body that is still empty
\* after the file read stays empty.
ReportBodyNoPlaceholder(r, fileRead) ==
  IF Falsy(r.content) /\ ~NoPath(r.reportPath)
    THEN IF fileRead[1] = "ok" THEN fileRead[2] ELSE ReadErrorBody
    ELSE r.content

\* reportContent after the two fallbacks (lines 146-159).  fileRead is what
\* fs.readFileSync does: <<"throws">> or <<"ok", text>>.
ReportBody(r, fileRead) ==
  LET c1 == IF Falsy(r.content) /\ ~NoPath(r.reportPath)
              THEN IF fileRead[1] = "ok" THEN fileRead[2] ELSE ReadErrorBody
              ELSE r.content
  IN IF Falsy(c1) THEN NoContentBody ELSE c1

\* Math.round(x / 1024) for a byte count x >= 0: halves round up.
ReportSizeKB(body) == (body.bytes + 512) \div 1024

\* Delivery decision without the transport flag.
UseUrlModeSizeOnly(http, sizeKB) == sizeKB > SIZE_THRESHOLD_KB

\* const useUrlMode = isHttpMode || reportSizeKB > SIZE_THRESHOLD_KB
UseUrlMode(http, sizeKB) == http \/ sizeKB > SIZE_THRESHOLD_KB

\* The signed URL of the uploaded object: names the query and the upload time.
SignedUrl(query, t) == <<"https://storage.googleapis.com/reports", query, t>>

\* finalResult of the URL-mode branch (lines 191-229).
UrlResult(c, r, body, url) ==
  [oid |-> c,
   content |-> << [type |-> "text",
                   text |-> [kind |-> "download", body |-> NoText, url |-> url,
                             sizeKB |-> Some(ReportSizeKB(body)),
                             sizeNote |-> ~isHttpMode]] >>,
   metadata |-> [learnings |-> r.learnings, visitedUrls |-> r.visitedUrls,
                 stats |-> [totalLearnings |-> Len(r.learnings),
                            totalSources |-> Len(r.visitedUrls)],
                 reportUrl |-> url,
                 reportSizeKB |-> Some(ReportSizeKB(body))]]

\* finalResult of the inline branch (lines 234-250).
InlineResult(c, r, body) ==
  [oid |-> c,
   content |-> << [type |-> "text",
                   text |-> [kind |-> "inline", body |-> body, url |-> Undefined,
                             sizeKB |-> Undefined, sizeNote |-> FALSE]] >>,
   metadata |-> [learnings |-> r.learnings, visitedUrls |-> r.visitedUrls,
                 stats |-> [totalLearnings |-> Len(r.learnings),
                            totalSources |-> Len(r.visitedUrls)],
                 reportUrl |-> Undefined,
                 reportSizeKB |-> Some(ReportSizeKB(body))]]

\* The object returned by the outer catch (lines 260-263).
ErrorResult(c, message) ==
  [oid |-> c,
   content |-> << [type |-> "text",
                   text |-> [kind |-> "error", body |-> Text(message, 1),
                             url |-> Undefined, sizeKB |-> Undefined,
                             sizeNote |-> FALSE]] >>,
   metadata |-> [learnings |-> <<>>, visitedUrls |-> <<>>,
                 stats |-> [totalLearnings |-> 0, totalSources |-> 0],
                 reportUrl |-> Undefined, reportSizeKB |-> Undefined]]

----------------------------------------------------------------------------
(* The deepResearch.run handler (lines 113-265), one action per stretch between
   awaits.  A call slot is used once; its fields stay readable after it returns. *)

Set(f, c, v) == [f EXCEPT ![c] = v]

\* Lines 113-128: derive the key, check the cache, return the cached object on a
\* hit, otherwise call research() and suspend on it.
StartCall(c, input) ==
  LET a == Destructure(input)
      g == LruGet(cache, hashKey(a), now)
  IN /\ pc[c] = "idle"
     /\ args' = Set(args, c, a)
     /\ cache' = g.cache
     /\ lookup' = Set(lookup, c, g.found)
     /\ IF g.hit
          THEN /\ pc' = Set(pc, c, "done")
               /\ ret' = Set(ret, c, g.value)
               /\ doneAt' = Set(doneAt, c, now)
               /\ UNCHANGED researchCalls
          ELSE /\ pc' = Set(pc, c, "pipeline-invoked")
               /\ researchCalls' = researchCalls + 1
               /\ UNCHANGED <<ret, doneAt>>
     /\ UNCHANGED <<isHttpMode, now, result, reportContent, gcsError, uploadCalls>>
     /\ UNCHANGED <<httpVars, envVars>>

\* Lines 253-256: store finalResult under the call's key and return it.
Finish(c, final) ==
  /\ cache' = LruSet(cache, hashKey(args[c]), final, now)
  /\ ret' = Set(ret, c, final)
  /\ doneAt' = Set(doneAt, c, now)
  /\ pc' = Set(pc, c, "done")

\* Variant of ResearchReturns that stores the URL-mode result in the cache as
\* soon as the mode is decided, before the upload has settled.
ResearchReturnsCachesFirst(c, r, fileRead) ==
  LET body == ReportBody(r, fileRead) IN
    /\ pc[c] = "pipeline-invoked"
    /\ result' = Set(result, c, r)
    /\ reportContent' = Set(reportContent, c, body)
    /\ IF UseUrlMode(isHttpMode, ReportSizeKB(body))
         THEN /\ pc' = Set(pc, c, "uploading")
              /\ uploadCalls' = uploadCalls + 1
              /\ cache' = LruSet(cache, hashKey(args[c]),
                                 UrlResult(c, r, body, Undefined), now)
              /\ UNCHANGED <<ret, doneAt>>
         ELSE /\ Finish(c, InlineResult(c, r, body))
              /\ UNCHANGED uploadCalls
    /\ UNCHANGED <<isHttpMode, now, args, lookup, gcsError, researchCalls>>
    /\ UNCHANGED <<httpVars, envVars>>

\* Lines 140-170, 230-256: research() resolved with r.  The body is taken from r
\* or from the report file, its size computed and the mode decided; inline results
\* are cached and returned, URL-mode results start the upload and suspend on it.
ResearchReturns(c, r, fileRead) ==
  LET body == ReportBody(r, fileRead) IN
    /\ pc[c] = "pipeline-invoked"
    /\ result' = Set(result, c, r)
    /\ reportContent' = Set(reportContent, c, body)
    /\ IF UseUrlMode(isHttpMode, ReportSizeKB(body))
         THEN /\ pc' = Set(pc, c, "uploading")
              /\ uploadCalls' = uploadCalls + 1
              /\ UNCHANGED <<cache, ret, doneAt>>
         ELSE /\ Finish(c, InlineResult(c, r, body))
              /\ UNCHANGED uploadCalls
    /\ UNCHANGED <<isHttpMode, now, args, lookup, gcsError, researchCalls>>
    /\ UNCHANGED <<httpVars, envVars>>

\* Variant of ResearchThrows without the outer try/catch: the handler's promise
\* rejects and nothing is returned.
ResearchThrowsRejects(c, message) ==
  /\ pc[c] = "pipeline-invoked"
  /\ pc' = Set(pc, c, "rejected")
  /\ UNCHANGED <<isHttpMode, now, cache, args, result, reportContent, ret, lookup,
                 doneAt, gcsError, researchCalls, uploadCalls>>
  /\ UNCHANGED <<httpVars, envVars>>

\* Variant of ResearchThrows in which the error object is stored in the cache
\* like any other result.
ResearchThrowsCachesError(c, message) ==
  /\ pc[c] = "pipeline-invoked"
  /\ pc' = Set(pc, c, "error-result")
  /\ ret' = Set(ret, c, ErrorResult(c, message))
  /\ doneAt' = Set(doneAt, c, now)
  /\ cache' = LruSet(cache, hashKey(args[c]), ErrorResult(c, message), now)
  /\ UNCHANGED <<isHttpMode, now, args, result, reportContent, lookup,
                 gcsError, researchCalls, uploadCalls>>
  /\ UNCHANGED <<httpVars, envVars>>

\* Lines 257-264: research() rejected; the outer catch returns the error object.
\* Nothing is written to the cache.
ResearchThrows(c, message) ==
  /\ pc[c] = "pipeline-invoked"
  /\ pc' = Set(pc, c, "error-result")
  /\ ret' = Set(ret, c, ErrorResult(c, message))
  /\ doneAt' = Set(doneAt, c, now)
  /\ UNCHANGED <<isHttpMode, now, cache, args, result, reportContent, lookup,
                 gcsError, researchCalls, uploadCalls>>
  /\ UNCHANGED <<httpVars, envVars>>

\* Lines 176-178, 184-229, 253-256: the upload resolved with a signed URL.
UploadReturns(c) ==
  /\ pc[c] = "uploading"
  /\ Finish(c, UrlResult(c, result[c], reportContent[c],
                         SignedUrl(args[c].query, now)))
  /\ UNCHANGED <<isHttpMode, now, args, result, reportContent, lookup, gcsError,
                 researchCalls, uploadCalls>>
  /\ UNCHANGED <<httpVars, envVars>>

\* Variant of UploadThrows without the inner try/catch: the storage error reaches
\* the outer catch.
UploadThrowsToOuterCatch(c) ==
  /\ pc[c] = "uploading"
  /\ gcsError' = Set(gcsError, c, TRUE)
  /\ pc' = Set(pc, c, "error-result")
  /\ ret' = Set(ret, c, ErrorResult(c, "storage"))
  /\ doneAt' = Set(doneAt, c, now)
  /\ UNCHANGED <<isHttpMode, now, cache, args, result, reportContent, lookup,
                 researchCalls, uploadCalls>>
  /\ UNCHANGED <<httpVars, envVars>>

\* Variant of UploadThrows that returns the marker result without storing it.
UploadThrowsSkipsCache(c) ==
  /\ pc[c] = "uploading"
  /\ gcsError' = Set(gcsError, c, TRUE)
  /\ ret' = Set(ret, c, UrlResult(c, result[c], reportContent[c], UPLOAD_ERROR_MARKER))
  /\ doneAt' = Set(doneAt, c, now)
  /\ pc' = Set(pc, c, "done")
  /\ UNCHANGED <<isHttpMode, now, cache, args, result, reportContent, lookup,
                 researchCalls, uploadCalls>>
  /\ UNCHANGED <<httpVars, envVars>>

\* Lines 179-182, 184-229, 253-256: the upload rejected; the inner catch sets the
\* marker as reportUrl and the handler goes on as after a successful upload.
UploadThrows(c) ==
  /\ pc[c] = "uploading"
  /\ gcsError' = Set(gcsError, c, TRUE)
  /\ Finish(c, UrlResult(c, result[c], reportContent[c], UPLOAD_ERROR_MARKER))
  /\ UNCHANGED <<isHttpMode, now, args, result, reportContent, lookup,
                 researchCalls, uploadCalls>>
  /\ UNCHANGED <<httpVars, envVars>>

\* The clock moves forward to a later instant.
Tick(t) ==
  /\ t > now
  /\ now' = t
  /\ UNCHANGED <<isHttpMode, cache, pc, args, result, reportContent, ret, lookup,
                 doneAt, gcsError, researchCalls, uploadCalls>>
  /\ UNCHANGED <<httpVars, envVars>>

InitTool ==
  /\ isHttpMode \in BOOLEAN
  /\ now = 0
  /\ cache = <<>>
  /\ pc = [c \in Calls |-> "idle"]
  /\ args = [c \in Calls |-> NoArgs]
  /\ result = [c \in Calls |-> NoResearch]
  /\ reportContent = [c \in Calls |-> NoText]
  /\ ret = [c \in Calls |-> NoReturn]
  /\ lookup = [c \in Calls |-> "none"]
  /\ doneAt = [c \in Calls |-> 0]
  /\ gcsError = [c \in Calls |-> FALSE]
  /\ researchCalls = 0
  /\ uploadCalls = 0

\* No request received yet (sseTransports = new Map()), n servers created.
HttpSurface(n) ==
  /\ sseTransports = <<>>
  /\ sse = <<>>
  /\ mcp = <<>>
  /\ uuids = 0
  /\ servers = n
  /\ dispatched = 0
  /\ lookups = 0
  /\ reqCount = 0
  /\ lastReq = [route |-> "none", xApiKey |-> Undefined,
                authorization |-> Undefined, sessionId |-> Undefined]
  /\ lastRes = [status |-> 0, body |-> "none"]

\* The HTTP surface once the module has been loaded: in stdio mode the load has
\* created the one server of the process (lines 404-411), in HTTP mode none.
HttpStart == HttpSurface(IF isHttpMode THEN 0 ELSE 1)

\* No API key configured, no request received.
HttpIdle == apiKey = <<>> /\ HttpStart

\* The module has been loaded under the default configuration
\* (PROVIDER_CACHE_TTL_MS unset); no tool call is announced.
EnvStart ==
  /\ ttlEnv = Undefined
  /\ ttlMs = Some(Num(MCP_CACHE_TTL_MS))
  /\ toolArgs = <<>>

----------------------------------------------------------------------------
(* Inputs *)

ToolInput(q, d, b, l) ==
  [query |-> q, depth |-> d, breadth |-> b, existingLearnings |-> l]

\* Tool inputs of the cache specification: two fingerprints.
ToolInputs ==
  { ToolInput("q1", Undefined, Undefined, Undefined),
    ToolInput("q2", Some(3), Undefined, Some(<<"known">>)) }

Research(content, path, learnings, urls) ==
  [content |-> content, reportPath |-> path, learnings |-> learnings,
   visitedUrls |-> urls]

\* Pipeline results of the cache specification: a small and a large report.
ResearchResults ==
  { Research(Text("report", 2048), Undefined, <<"l1">>, <<"u1", "u2">>),
    Research(Text("report", 61440), Undefined, <<"l1", "l2">>, <<"u1">>) }

\* Instants the clock visits: process start, exactly one TTL later, one ms after.
TimePoints == {0, MCP_CACHE_TTL_MS, MCP_CACHE_TTL_MS + 1}

FileOk == <<"ok", Text("file", 4096)>>

Next ==
  \/ \E c \in Calls, input \in ToolInputs : StartCall(c, input)
  \/ \E c \in Calls, r \in ResearchResults : ResearchReturns(c, r, FileOk)
  \/ \E c \in Calls : ResearchThrows(c, "pipeline failed")
  \/ \E c \in Calls : UploadReturns(c)
  \/ \E c \in Calls : UploadThrows(c)
  \/ \E t \in TimePoints : Tick(t)

\* The process after start-up: empty cache, no call, no request.
Init == InitTool /\ HttpIdle /\ EnvStart

Spec == Init /\ [][Next]_vars

----------------------------------------------------------------------------
(* The delivery specification: the same handler, the clock standing still, over
   report bodies on both sides of the size threshold and every fallback path. *)

ThresholdBytes == SIZE_THRESHOLD_KB * 1024

DeliverySizes ==
  {ThresholdBytes - 1024, ThresholdBytes, ThresholdBytes + 1,
   ThresholdBytes + 512, ThresholdBytes + 1024}

DeliveryResults ==
  { Research(Text("report", b), Undefined, <<"l1">>, <<"u1", "u2">>) :
      b \in DeliverySizes }
  \cup { Research(NoText, Some("report.md"), <<"l1">>, <<>>),
         Research(EmptyText, Some("report.md"), <<>>, <<"u1">>),
         Research(NoText, Some(""), <<"l1">>, <<>>),
         Research(NoText, Undefined, <<"l1">>, <<"u1">>) }

FileReads ==
  { <<"throws">>, <<"ok", EmptyText>>, <<"ok", Text("file", 4096)>> }

NextDelivery ==
  \/ \E c \in Calls, input \in ToolInputs : StartCall(c, input)
  \/ \E c \in Calls, r \in DeliveryResults, f \in FileReads :
       ResearchReturns(c, r, f)
  \/ \E c \in Calls : ResearchThrows(c, "pipeline failed")
  \/ \E c \in Calls : UploadReturns(c)
  \/ \E c \in Calls : UploadThrows(c)

SpecDelivery == Init /\ [][NextDelivery]_vars

----------------------------------------------------------------------------
(* Reading a call's outcome *)

Terminal == {"done", "error-result"}

\* The call built its own result (cache miss, pipeline succeeded).
Computed(c) == pc[c] = "done" /\ ret[c].oid = c

\* The call returned an object another call built (cache hit).
ServedFromCache(c) == pc[c] = "done" /\ ret[c].oid # c

TextOf(r) == r.content[1].text

Offloaded(r) ==
  /\ Len(r.content) = 1
  /\ TextOf(r).kind = "download"
  /\ r.metadata.reportUrl # Undefined

Inline(r, body) ==
  /\ Len(r.content) = 1
  /\ TextOf(r).kind = "inline"
  /\ TextOf(r).body = body
  /\ r.metadata.reportUrl = Undefined

\* Calls that have passed the delivery decision on the URL-mode side.
TookUrlMode == {c \in Calls : pc[c] = "uploading" \/ (Computed(c) /\ Offloaded(ret[c]))}

----------------------------------------------------------------------------
(* C3: in stdio mode a computed result is offloaded exactly when the report body
   is larger than 50 KB (51200 bytes): above it the upload is attempted and
   metadata.reportUrl is present, at or below it the full body is returned inline
   with no upload and no reportUrl. *)
C3_StdioThresholdInBytes ==
  ~isHttpMode =>
    /\ \A c \in Calls :
         Computed(c) =>
           IF reportContent[c].bytes > ThresholdBytes
             THEN Offloaded(ret[c])
             ELSE Inline(ret[c], reportContent[c])
    /\ uploadCalls = Cardinality(TookUrlMode)

(* C4: in HTTP mode every call that reaches the delivery decision attempts an
   upload and returns the download-instruction block with metadata.reportUrl set;
   no call, computed or served from the cache, returns the report inline. *)
C4_HttpAlwaysOffloaded ==
  isHttpMode =>
    /\ \A c \in Calls :
         /\ pc[c] = "done" => Offloaded(ret[c])
         /\ Computed(c) => TextOf(ret[c]).body = NoText
    /\ uploadCalls = Cardinality({c \in Calls : pc[c] = "uploading" \/ Computed(c)})

C4_Witness ==
  /\ isHttpMode
  /\ \E c \in Calls :
       /\ Computed(c)
       /\ reportContent[c].bytes <= ThresholdBytes
       /\ Offloaded(ret[c])

(* C5: a call whose upload failed ends in done, not in error-result, with
   metadata.reportUrl equal to the marker string and with the learnings,
   visitedUrls and stats of the pipeline's result. *)
C5_UploadFailureIsMarked ==
  \A c \in Calls :
    gcsError[c] =>
      /\ pc[c] = "done"
      /\ ret[c].metadata.reportUrl = UPLOAD_ERROR_MARKER
      /\ ret[c].metadata.learnings = result[c].learnings
      /\ ret[c].metadata.visitedUrls = result[c].visitedUrls
      /\ ret[c].metadata.stats =
           [totalLearnings |-> Len(result[c].learnings),
            totalSources |-> Len(result[c].visitedUrls)]

C5_Witness ==
  \E c \in Calls :
    /\ gcsError[c]
    /\ pc[c] = "done"
    /\ Len(result[c].learnings) > 0
    /\ TextOf(ret[c]).url = UPLOAD_ERROR_MARKER

----------------------------------------------------------------------------
(* The cache specification with the scheduling the runtime gives: a pending
   research() or upload promise that settles is eventually handled. *)

ResearchSettles(c) ==
  \/ \E r \in ResearchResults : ResearchReturns(c, r, FileOk)
  \/ ResearchThrows(c, "pipeline failed")

UploadSettles(c) == UploadReturns(c) \/ UploadThrows(c)

FairSpec ==
  /\ Spec
  /\ \A c \in Calls : WF_vars(ResearchSettles(c)) /\ WF_vars(UploadSettles(c))

\* A well-formed MCPResearchResult: one text block, stats that count the lists.
WellFormed(r) ==
  /\ Len(r.content) = 1
  /\ r.content[1].type = "text"
  /\ TextOf(r).kind \in {"inline", "download", "error"}
  /\ r.metadata.stats.totalLearnings = Len(r.metadata.learnings)
  /\ r.metadata.stats.totalSources = Len(r.metadata.visitedUrls)

\* The result of the error path: one text block describing the error, empty
\* learnings and visitedUrls, zero stats.
ErrorShaped(r) ==
  /\ WellFormed(r)
  /\ TextOf(r).kind = "error"
  /\ r.metadata.learnings = <<>>
  /\ r.metadata.visitedUrls = <<>>
  /\ r.metadata.stats = [totalLearnings |-> 0, totalSources |-> 0]

(* C6: every started call eventually ends in done or error-result, never in a
   rejection; whatever it returned is well-formed, and the error path returns one
   error text block with empty learnings, empty visitedUrls and zero stats. *)
C6_EveryCallResolves ==
  /\ [](\A c \in Calls :
          /\ pc[c] \in {"idle", "pipeline-invoked", "uploading"} \cup Terminal
          /\ pc[c] \in Terminal => WellFormed(ret[c])
          /\ pc[c] = "error-result" => ErrorShaped(ret[c]))
  /\ \A c \in Calls : (pc[c] # "idle") ~> (pc[c] \in Terminal)

C6_Witness ==
  /\ \E c \in Calls : pc[c] = "error-result" /\ ErrorShaped(ret[c])
  /\ \E c \in Calls : Computed(c) /\ gcsError[c]
  /\ \E c \in Calls : pc[c] = "done"

----------------------------------------------------------------------------
(* Claims about the cache, stated over the steps of Spec *)

CacheKey(c) == hashKey(args[c])

\* Call c leaves idle in this step.
Starts(c) == pc[c] = "idle" /\ pc'[c] # "idle"

\* The step invokes neither the pipeline nor the upload.
NoPipelineNoUpload == researchCalls' = researchCalls /\ uploadCalls' = uploadCalls

\* The object call d built is the cache's current entry for d's key.
StillCached(d) ==
  \E i \in 1..Len(cache) :
    cache[i].key = CacheKey(d) /\ cache[i].value = ret[d]

(* C1 as stated: whenever a call starts after an identical call completed, within
   the TTL of that completion, it returns the very object the first call returned
   and invokes neither the pipeline nor the upload. *)
C1_AnyCompletedCallIsReused ==
  [][\A c, d \in Calls :
       (/\ Starts(c)
        /\ pc[d] \in Terminal
        /\ CacheKey(d) = hashKey(args'[c])
        /\ now - doneAt[d] <= MCP_CACHE_TTL_MS)
       => (pc'[c] = "done" /\ ret'[c] = ret[d] /\ NoPipelineNoUpload)]_vars

(* C1 amended: whenever a call starts after an identical call that computed its
   result (cache miss, pipeline succeeded) and returned, within the TTL of that
   return, and that result is still the cache's entry for the fingerprint, it
   returns the very object the first call returned and invokes neither the
   pipeline nor the upload. *)
C1_ComputedResultIsReused ==
  [][\A c, d \in Calls :
       (/\ Starts(c)
        /\ Computed(d)
        /\ CacheKey(d) = hashKey(args'[c])
        /\ now - doneAt[d] <= MCP_CACHE_TTL_MS
        /\ StillCached(d))
       => (pc'[c] = "done" /\ ret'[c] = ret[d] /\ NoPipelineNoUpload)]_vars

\* A call served from the cache exactly one TTL after the first call returned.
C1_Witness ==
  \E c, d \in Calls :
    /\ Computed(d)
    /\ ServedFromCache(c)
    /\ ret[c] = ret[d]
    /\ CacheKey(c) = CacheKey(d)
    /\ doneAt[c] - doneAt[d] = MCP_CACHE_TTL_MS

(* C2: an entry older than the TTL is never returned: a call served from the
   cache gets an entry whose age is at most the TTL, and a call that finds an
   entry for its fingerprint older than the TTL takes the miss path and invokes
   the pipeline, the entry having stayed in the cache until then. *)
C2_StaleEntryNeverReturned ==
  [][\A c \in Calls :
       Starts(c) =>
         /\ pc'[c] = "done" =>
              \E i \in 1..Len(cache) :
                /\ cache[i].key = hashKey(args'[c])
                /\ cache[i].value = ret'[c]
                /\ now - cache[i].start <= MCP_CACHE_TTL_MS
         /\ (\E i \in 1..Len(cache) :
               /\ cache[i].key = hashKey(args'[c])
               /\ now - cache[i].start > MCP_CACHE_TTL_MS)
            => /\ pc'[c] = "pipeline-invoked"
               /\ researchCalls' = researchCalls + 1]_vars

\* A call in flight that found a stale entry of an earlier identical call.
C2_Witness ==
  \E c, d \in Calls :
    /\ Computed(d)
    /\ CacheKey(c) = CacheKey(d)
    /\ lookup[c] = "stale"
    /\ pc[c] = "pipeline-invoked"
    /\ now - doneAt[d] > MCP_CACHE_TTL_MS

----------------------------------------------------------------------------
(* The HTTP surface (lines 297-403).  A header value or key is the sequence of
   its pieces; the piece "Bearer " is the seven characters String.replace looks
   for.  Requests carry well-formed bodies. *)

ConfiguredKey == <<"sec", "ret">>
OtherKey == <<"other">>

Bearer(k) == <<"Bearer ">> \o k

\* s.replace('Bearer ', ''): the first occurrence, wherever it is, is removed.
ReplaceFirst(s, piece) ==
  IF \E i \in 1..Len(s) : s[i] = piece
    THEN LET i == CHOOSE j \in 1..Len(s) :
                    s[j] = piece /\ \A k \in 1..(j - 1) : s[k] # piece
         IN RemoveAt(s, i)
    ELSE s

\* JS truthiness of a header: present and not the empty string.
Truthy(h) == h # Undefined /\ h[1] # <<>>

\* Variant of ProvidedKey that reads the x-api-key header only.
ProvidedKeyHeaderOnly(req) == req.xApiKey

\* req.headers['x-api-key'] || req.headers['authorization']?.replace('Bearer ', '')
ProvidedKey(req) ==
  IF Truthy(req.xApiKey) THEN req.xApiKey
  ELSE IF req.authorization = Undefined THEN Undefined
  ELSE Some(ReplaceFirst(req.authorization[1], "Bearer "))

\* apiKeyAuth: TRUE when next() is called, FALSE when 401 is answered.
ApiKeyAuth(req) ==
  IF apiKey = <<>> THEN TRUE ELSE ProvidedKey(req) = Some(apiKey)

Request(route, h, sid) ==
  [route |-> route, xApiKey |-> h.xApiKey, authorization |-> h.authorization,
   sessionId |-> sid]

Response(status, body) == [status |-> status, body |-> body]

\* Every handler starts with the request received.
Receive(req) ==
  /\ reqCount < MaxRequests
  /\ reqCount' = reqCount + 1
  /\ lastReq' = req

\* res.status(401).json({ error: 'Unauthorized' }); the route's handler never runs.
Reject401 ==
  /\ lastRes' = Response(401, "Unauthorized")
  /\ UNCHANGED <<apiKey, sseTransports, sse, mcp, uuids, servers, dispatched,
                 lookups>>

\* GET /health (lines 325-328): no middleware.
GetHealth(h) ==
  /\ Receive(Request("GET /health", h, Undefined))
  /\ lastRes' = Response(200, "ok")
  /\ UNCHANGED <<apiKey, sseTransports, sse, mcp, uuids, servers, dispatched,
                 lookups>>
  /\ UNCHANGED <<toolVars, envVars>>

\* POST /mcp up to its first await (lines 331-341): a fresh server and transport,
\* server.connect pending.  The answer is written later.
PostMcp(h) ==
  LET req == Request("POST /mcp", h, Undefined) IN
    /\ Receive(req)
    /\ IF ApiKeyAuth(req)
         THEN /\ servers' = servers + 1
              /\ mcp' = Append(mcp, [pc |-> "connecting", open |-> TRUE,
                                     released |-> FALSE, status |-> 0])
              /\ lastRes' = Response(0, "pending")
              /\ UNCHANGED <<apiKey, sseTransports, sse, uuids, dispatched, lookups>>
         ELSE Reject401
    /\ UNCHANGED <<toolVars, envVars>>

\* server.connect resolved; transport.handleRequest is called (line 342).
McpConnected(i) ==
  /\ i \in 1..Len(mcp)
  /\ mcp[i].pc = "connecting"
  /\ mcp' = [mcp EXCEPT ![i].pc = "handling"]
  /\ dispatched' = dispatched + 1
  /\ UNCHANGED <<apiKey, sseTransports, sse, uuids, servers, lookups, reqCount,
                 lastReq, lastRes>>
  /\ UNCHANGED <<toolVars, envVars>>

\* transport.handleRequest resolved; the close listener is registered (344-347).
\* The handler writes nothing itself on this path: the status of the answer is
\* the one the transport wrote before resolving, 0 when it wrote none.
McpHandled(i, written) ==
  /\ i \in 1..Len(mcp)
  /\ mcp[i].pc = "handling"
  /\ mcp' = [mcp EXCEPT ![i].pc = "listening", ![i].status = written]
  /\ UNCHANGED <<apiKey, sseTransports, sse, uuids, servers, dispatched, lookups,
                 reqCount, lastReq, lastRes>>
  /\ UNCHANGED <<toolVars, envVars>>

\* server.connect or transport.handleRequest rejected (lines 348-357): 500 unless
\* the headers are out; no close listener was registered.
McpThrows(i) ==
  /\ i \in 1..Len(mcp)
  /\ mcp[i].pc \in {"connecting", "handling"}
  /\ mcp' = [mcp EXCEPT ![i].pc = "failed",
                        ![i].status = IF @ = 0 THEN 500 ELSE @]
  /\ UNCHANGED <<apiKey, sseTransports, sse, uuids, servers, dispatched, lookups,
                 reqCount, lastReq, lastRes>>
  /\ UNCHANGED <<toolVars, envVars>>

\* The connection of a POST /mcp exchange closes: the listener, if registered by
\* then, closes the transport and the server.
McpClose(i) ==
  /\ i \in 1..Len(mcp)
  /\ mcp[i].open
  /\ mcp' = [mcp EXCEPT ![i].open = FALSE,
                        ![i].released = (mcp[i].pc = "listening")]
  /\ UNCHANGED <<apiKey, sseTransports, sse, uuids, servers, dispatched, lookups,
                 reqCount, lastReq, lastRes>>
  /\ UNCHANGED <<toolVars, envVars>>

\* The body of the 405 answer: { jsonrpc: '2.0', error: { code: -32000,
\* message: 'Method not allowed' }, id: null }.
MethodNotAllowedBody ==
  "{jsonrpc:'2.0',error:{code:-32000,message:'Method not allowed'},id:null}"

\* GET /mcp and DELETE /mcp (lines 360-367): no middleware, no server created.
\* A HEAD request is dispatched to the GET route, no HEAD route being registered;
\* its answer carries the status and no body.
McpMethodNotAllowed(method, h) ==
  /\ method \in {"GET", "HEAD", "DELETE"}
  /\ Receive(Request(method \o " /mcp", h, Undefined))
  /\ lastRes' = Response(405, IF method = "HEAD" THEN "" ELSE MethodNotAllowedBody)
  /\ UNCHANGED <<apiKey, sseTransports, sse, mcp, uuids, servers, dispatched,
                 lookups>>
  /\ UNCHANGED <<toolVars, envVars>>

\* OPTIONS /mcp: no route handles the method, and the framework answers it
\* itself with the methods of the routes registered for the path (lines 331,
\* 361, 365) in the Allow header and in the body.
McpOptions(h) ==
  /\ Receive(Request("OPTIONS /mcp", h, Undefined))
  /\ lastRes' = Response(200, "POST,GET,HEAD,DELETE")
  /\ UNCHANGED <<apiKey, sseTransports, sse, mcp, uuids, servers, dispatched,
                 lookups>>
  /\ UNCHANGED <<toolVars, envVars>>

\* Any other method on /mcp: only app.post, app.get and app.delete are registered
\* for the path (lines 331, 361, 365), so the request falls through every route
\* and the framework answers 404 with its HTML page "Cannot <METHOD> /mcp".
McpNoRoute(method, h) ==
  /\ method \notin {"POST", "GET", "HEAD", "DELETE", "OPTIONS"}
  /\ Receive(Request(method \o " /mcp", h, Undefined))
  /\ lastRes' = Response(404, "<pre>Cannot " \o method \o " /mcp</pre>")
  /\ UNCHANGED <<apiKey, sseTransports, sse, mcp, uuids, servers, dispatched,
                 lookups>>
  /\ UNCHANGED <<toolVars, envVars>>

\* GET /sse (lines 372-389).  new SSEServerTransport draws the transport's own
\* session id, the one its endpoint event gives the client; the handler then draws
\* the id it registers the transport under.  server.connect starts the transport,
\* which writes the 200 head and the endpoint event.
GetSse(h) ==
  LET req == Request("GET /sse", h, Undefined)
      transportSessionId == uuids + 1
      sessionId == uuids + 2
      n == Len(sse) + 1
  IN /\ Receive(req)
     /\ IF ApiKeyAuth(req)
          THEN /\ uuids' = uuids + 2
               /\ sse' = Append(sse, [open |-> TRUE, sessionId |-> sessionId,
                                      endpointSessionId |-> transportSessionId,
                                      posts |-> 0, closed |-> FALSE])
               /\ sseTransports' = (sessionId :> n) @@ sseTransports
               /\ servers' = servers + 1
               /\ lastRes' = Response(200, "event: endpoint")
               /\ UNCHANGED <<apiKey, mcp, dispatched, lookups>>
          ELSE Reject401
     /\ UNCHANGED <<toolVars, envVars>>

\* Variant of SseClose that forgets sseTransports.delete(sessionId).
SseCloseKeepsRecord(n) ==
  /\ n \in 1..Len(sse)
  /\ sse[n].open
  /\ sse' = [sse EXCEPT ![n].open = FALSE, ![n].closed = TRUE]
  /\ UNCHANGED <<apiKey, sseTransports, mcp, uuids, servers, dispatched, lookups,
                 reqCount, lastReq, lastRes>>
  /\ UNCHANGED <<toolVars, envVars>>

\* res.on('close') of an SSE connection (lines 383-388): the record is deleted,
\* the transport and the server are closed.
SseClose(n) ==
  /\ n \in 1..Len(sse)
  /\ sse[n].open
  /\ sse' = [sse EXCEPT ![n].open = FALSE, ![n].closed = TRUE]
  /\ sseTransports' = [k \in DOMAIN sseTransports \ {sse[n].sessionId} |->
                         sseTransports[k]]
  /\ UNCHANGED <<apiKey, mcp, uuids, servers, dispatched, lookups, reqCount,
                 lastReq, lastRes>>
  /\ UNCHANGED <<toolVars, envVars>>

\* POST /messages?sessionId=... (lines 391-399).  A request without the parameter
\* looks up undefined, which no record is stored under.
PostMessages(h, sid) ==
  LET req == Request("POST /messages", h, sid)
      found == sid # Undefined /\ sid[1] \in DOMAIN sseTransports
  IN /\ Receive(req)
     /\ IF ApiKeyAuth(req)
          THEN /\ lookups' = lookups + 1
               /\ IF found
                    THEN /\ sse' = [sse EXCEPT ![sseTransports[sid[1]]].posts = @ + 1]
                         /\ dispatched' = dispatched + 1
                         /\ lastRes' = Response(202, "Accepted")
                    ELSE /\ lastRes' = Response(404, "Session not found")
                         /\ UNCHANGED <<sse, dispatched>>
               /\ UNCHANGED <<apiKey, sseTransports, mcp, uuids, servers>>
          ELSE Reject401
     /\ UNCHANGED <<toolVars, envVars>>

----------------------------------------------------------------------------
(* The HTTP specification *)

Headers(x, a) == [xApiKey |-> x, authorization |-> a]

XApiKeyValues == {Undefined, Some(<<>>), Some(ConfiguredKey), Some(OtherKey)}

AuthorizationValues ==
  {Undefined, Some(Bearer(ConfiguredKey)), Some(Bearer(OtherKey)),
   Some(ConfiguredKey), Some(<<"sec", "Bearer ", "ret">>)}

HeaderValues == {Headers(x, a) : x \in XApiKeyValues, a \in AuthorizationValues}

\* Session ids a client may send: any UUID, drawn by the server or not.
SessionIdValues == {Undefined} \cup {Some(u) : u \in 1..(2 * MaxRequests)}

\* What the transport may have written when handleRequest resolves: nothing yet,
\* a JSON or event-stream answer, an acceptance, a refusal of the request.
TransportStatuses == {0, 200, 202, 400, 406}

\* Methods a client may send to /mcp besides POST.
OtherMethods == {"GET", "HEAD", "DELETE", "OPTIONS", "PUT", "PATCH"}

\* Headers of the requests no middleware reads: none, or the configured key.
PlainHeaders == {Headers(Undefined, Undefined), Headers(Some(ConfiguredKey), Undefined)}

InitHttp ==
  /\ InitTool
  /\ isHttpMode
  /\ apiKey \in {<<>>, ConfiguredKey}
  /\ HttpStart
  /\ EnvStart

NextHttp ==
  \/ \E h \in HeaderValues : GetHealth(h)
  \/ \E h \in HeaderValues : PostMcp(h)
  \/ \E h \in HeaderValues : GetSse(h)
  \/ \E h \in HeaderValues, sid \in SessionIdValues : PostMessages(h, sid)
  \/ \E method \in OtherMethods, h \in PlainHeaders : McpMethodNotAllowed(method, h)
  \/ \E h \in PlainHeaders : McpOptions(h)
  \/ \E method \in OtherMethods, h \in PlainHeaders : McpNoRoute(method, h)
  \/ \E i \in 1..MaxRequests : McpConnected(i)
  \/ \E i \in 1..MaxRequests, written \in TransportStatuses : McpHandled(i, written)
  \/ \E i \in 1..MaxRequests : McpThrows(i)
  \/ \E i \in 1..MaxRequests : McpClose(i)
  \/ \E n \in 1..MaxRequests : SseClose(n)

SpecHttp == InitHttp /\ [][NextHttp]_vars

----------------------------------------------------------------------------
(* Claims about the HTTP surface, stated over SpecHttp *)

OpenSse == {n \in 1..Len(sse) : sse[n].open}

Gated == {"POST /mcp", "GET /sse", "POST /messages"}

\* This step is the handling of a newly received request.
Received == reqCount' = reqCount + 1

\* One record per open SSE connection, under that connection's id, and no other.
RegistryMatchesOpen ==
  /\ DOMAIN sseTransports = {sse[n].sessionId : n \in OpenSse}
  /\ \A n \in OpenSse : sseTransports[sse[n].sessionId] = n
  /\ Cardinality(DOMAIN sseTransports) = Cardinality(OpenSse)

RegistryUntouched ==
  /\ DOMAIN sseTransports' = DOMAIN sseTransports
  /\ \A k \in DOMAIN sseTransports : sseTransports'[k] = sseTransports[k]

(* C7: the registry holds exactly one record per open SSE connection and nothing
   else; an accepted GET /sse adds one record under an id not registered before,
   a connection's close removes exactly its record and leaves the others as they
   were, and an accepted POST /messages whose id is not registered is answered
   404 'Session not found' and touches no transport. *)
C7_RegistryTracksOpenSessions ==
  /\ [] RegistryMatchesOpen
  /\ [][/\ Len(sse') = Len(sse) + 1 =>
             LET new == sse'[Len(sse')].sessionId IN
               /\ new \notin DOMAIN sseTransports
               /\ DOMAIN sseTransports' = DOMAIN sseTransports \cup {new}
               /\ \A k \in DOMAIN sseTransports : sseTransports'[k] = sseTransports[k]
        /\ \A n \in OpenSse :
             ~sse'[n].open =>
               /\ DOMAIN sseTransports' = DOMAIN sseTransports \ {sse[n].sessionId}
               /\ \A k \in DOMAIN sseTransports' : sseTransports'[k] = sseTransports[k]
        /\ (/\ Received
            /\ lastReq'.route = "POST /messages"
            /\ ApiKeyAuth(lastReq')
            /\ \/ lastReq'.sessionId = Undefined
               \/ lastReq'.sessionId[1] \notin DOMAIN sseTransports)
           => /\ lastRes' = Response(404, "Session not found")
              /\ sse' = sse
              /\ dispatched' = dispatched
              /\ RegistryUntouched]_vars

\* A session was opened and closed, and a later post to its id was answered 404.
C7_Witness ==
  \E n \in 1..Len(sse) :
    /\ sse[n].closed
    /\ lastReq.route = "POST /messages"
    /\ lastReq.sessionId = Some(sse[n].sessionId)
    /\ lastRes = Response(404, "Session not found")

(* C8: while an SSE session is open, an accepted POST /messages carrying the
   session id the client was given for it (the one in the endpoint event) is
   handed to that session's transport and is not answered 404. *)
C8_ClientSessionIdIsRouted ==
  \A n \in OpenSse :
    (/\ lastReq.route = "POST /messages"
     /\ lastReq.sessionId = Some(sse[n].endpointSessionId)
     /\ ApiKeyAuth(lastReq))
    => (lastRes.status # 404 /\ sse[n].posts > 0)

\* The request presents key k: as x-api-key, as Bearer token, or as the bare
\* Authorization value.
PresentsKey(req, k) ==
  \/ req.xApiKey = Some(k)
  \/ req.authorization = Some(Bearer(k))
  \/ req.authorization = Some(k)

(* C9: with a key configured, a request to a gated endpoint that presents no key
   or another key is answered 401 Unauthorized and changes nothing: no server is
   created, no session registered or looked up, no message dispatched.  With no
   key configured no gated request is answered 401, and GET /health is answered
   200 whatever the configuration and the headers. *)
C9_GateRejectsEveryOtherKey ==
  [][Received =>
       /\ (apiKey # <<>> /\ lastReq'.route \in Gated
             /\ ~PresentsKey(lastReq', apiKey))
          => /\ lastRes' = Response(401, "Unauthorized")
             /\ UNCHANGED <<servers, sseTransports, sse, mcp, uuids, lookups,
                            dispatched>>
       /\ (apiKey = <<>> /\ lastReq'.route \in Gated) => lastRes'.status # 401
       /\ lastReq'.route = "GET /health" => lastRes' = Response(200, "ok")]_vars

(* C10 as stated: with a key configured, a gated request that presents it in
   x-api-key or as 'Authorization: Bearer <key>' passes the gate whatever the
   other header holds. *)
C10_EitherHeaderPasses ==
  (/\ apiKey # <<>>
   /\ lastReq.route \in Gated
   /\ \/ lastReq.xApiKey = Some(apiKey)
      \/ lastReq.authorization = Some(Bearer(apiKey)))
  => lastRes.status # 401

(* C10 amended: with a key configured, a gated request passes the gate if it
   presents the key in x-api-key, whatever Authorization holds, or if it presents
   it as 'Authorization: Bearer <key>' and x-api-key is absent or empty. *)
C10_HeaderFirstThenBearer ==
  (/\ apiKey # <<>>
   /\ lastReq.route \in Gated
   /\ \/ lastReq.xApiKey = Some(apiKey)
      \/ (lastReq.authorization = Some(Bearer(apiKey)) /\ ~Truthy(lastReq.xApiKey)))
  => lastRes.status # 401

\* A Bearer-only request that opened an SSE session under a configured key.
C10_Witness ==
  /\ apiKey # <<>>
  /\ lastReq.route = "GET /sse"
  /\ lastReq.authorization = Some(Bearer(apiKey))
  /\ lastReq.xApiKey = Some(<<>>)
  /\ lastRes.status = 200
  /\ OpenSse # {}

----------------------------------------------------------------------------
(* The eviction specification: the same handler over a cache that earlier calls
   have filled to its capacity.  A query is the sequence of its pieces. *)

Topic(i) == ToolInput(<<"topic", i>>, Undefined, Undefined, Undefined)

\* The calls that filled the cache are numbered below zero.
PastCall(i) == 0 - i

PastResearch == Research(Text("report", 2048), Undefined, <<"l1">>, <<"u1">>)

\* The entry a successful call for Topic(i) left in the cache at instant 0: the
\* report is small, so it was returned inline in stdio mode and uploaded in HTTP
\* mode.
WarmEntry(i) ==
  [key |-> hashKey(Destructure(Topic(i))),
   value |-> IF UseUrlMode(isHttpMode, ReportSizeKB(PastResearch.content))
               THEN UrlResult(PastCall(i), PastResearch, PastResearch.content,
                              SignedUrl(Topic(i).query, 0))
               ELSE InlineResult(PastCall(i), PastResearch, PastResearch.content),
   start |-> 0]

\* LRU_MAX entries, Topic(1) least recently used, Topic(LRU_MAX) most recently.
WarmCache == [i \in 1..LRU_MAX |-> WarmEntry(i)]

InitLru ==
  /\ isHttpMode \in BOOLEAN
  /\ now = 0
  /\ cache = WarmCache
  /\ pc = [c \in Calls |-> "idle"]
  /\ args = [c \in Calls |-> NoArgs]
  /\ result = [c \in Calls |-> NoResearch]
  /\ reportContent = [c \in Calls |-> NoText]
  /\ ret = [c \in Calls |-> NoReturn]
  /\ lookup = [c \in Calls |-> "none"]
  /\ doneAt = [c \in Calls |-> 0]
  /\ gcsError = [c \in Calls |-> FALSE]
  /\ researchCalls = 0
  /\ uploadCalls = 0
  /\ HttpIdle
  /\ EnvStart

\* The two least recently used topics, the most recently used one, two new ones.
LruInputs ==
  {Topic(1), Topic(2), Topic(LRU_MAX), Topic(LRU_MAX + 1), Topic(LRU_MAX + 2)}

NextLru ==
  \/ \E c \in Calls, input \in LruInputs : StartCall(c, input)
  \/ \E c \in Calls : ResearchReturns(c, PastResearch, FileOk)
  \/ \E c \in Calls : ResearchThrows(c, "pipeline failed")
  \/ \E c \in Calls : UploadReturns(c)
  \/ \E c \in Calls : UploadThrows(c)
  \/ \E t \in TimePoints : Tick(t)

SpecLru == InitLru /\ [][NextLru]_vars

Keys(ch) == {ch[i].key : i \in 1..Len(ch)}

\* Call c writes the cache and returns in this step.
Writes(c) == pc[c] \in {"pipeline-invoked", "uploading"} /\ pc'[c] = "done"

\* ch with the entry of key k, if any, taken out.
Without(ch, k) == IF LruIndex(ch, k) = 0 THEN ch ELSE RemoveAt(ch, LruIndex(ch, k))

(* C11: the cache never holds more than 50 entries.  A hit moves the entry hit to
   the most-recent end and a write puts the written entry there, every other
   entry keeping its place in the recency order; a write of a new fingerprint
   into a full cache removes exactly the entry at the least-recent end, which is
   never the entry inserted or hit last. *)
C11_EvictsLeastRecentlyUsed ==
  /\ [](Len(cache) <= LRU_MAX)
  /\ [][\A c \in Calls :
          /\ (Starts(c) /\ lookup'[c] = "hit") =>
               /\ cache' = Append(Without(cache, CacheKey(c)'),
                                  cache[LruIndex(cache, CacheKey(c)')])
               /\ Keys(cache') = Keys(cache)
          /\ Writes(c) =>
               LET k == CacheKey(c)
                   e == [key |-> k, value |-> ret'[c], start |-> now]
               IN IF k \in Keys(cache) \/ Len(cache) < LRU_MAX
                    THEN cache' = Append(Without(cache, k), e)
                    ELSE /\ cache' = Append(Tail(cache), e)
                         /\ Keys(cache) \ Keys(cache') = {cache[1].key}
                         /\ cache[Len(cache)].key \in Keys(cache')
                         /\ Len(cache') = LRU_MAX]_vars

\* A call hit the least recently used entry, a later call inserted a new
\* fingerprint into the full cache: the entry hit is still cached, the entry that
\* was second in line is gone.
C11_Witness ==
  \E c, d \in Calls :
    /\ lookup[c] = "hit" /\ args[c] = Destructure(Topic(1))
    /\ Computed(d) /\ lookup[d] = "absent"
    /\ Len(cache) = LRU_MAX
    /\ CacheKey(c) \in Keys(cache)
    /\ CacheKey(d) \in Keys(cache)
    /\ WarmEntry(2).key \notin Keys(cache)

----------------------------------------------------------------------------
(* Methods other than POST on /mcp *)

(* C12: every request to /mcp with a method other than POST is answered 405 with
   the JSON-RPC error body and creates no protocol-server instance. *)
C12_NonPostIsMethodNotAllowed ==
  [][(Received /\ lastReq'.route \in {m \o " /mcp" : m \in OtherMethods}) =>
       /\ lastRes' = Response(405, MethodNotAllowedBody)
       /\ servers' = servers]_vars

----------------------------------------------------------------------------
(* The start-up specification: the process is started with some value of
   PROVIDER_CACHE_TTL_MS and loads the module, which computes the TTL. *)

MaxEnvLen == 2

EnvChars == {"0", "7", "-", "+", " ", "x", "."}

RECURSIVE TextsUpTo(_)
TextsUpTo(n) ==
  IF n = 0 THEN {<<>>}
  ELSE LET shorter == TextsUpTo(n - 1)
       IN shorter \cup {Append(t, ch) : t \in shorter, ch \in EnvChars}

\* Values of the variable: unset, every text of up to MaxEnvLen characters over
\* EnvChars (the empty text among them), and texts on both sides of each limit.
EnvValues ==
  {Undefined} \cup {Some(t) : t \in TextsUpTo(MaxEnvLen)}
  \cup { Some(<<"9", "9", "9">>), Some(<<"1", "0", "0", "0">>),
         Some(<<"1", "0", "0", "1">>), Some(<<"6", "0", "0", "0", "0", "0">>),
         Some(<<"8", "6", "4", "0", "0", "0", "0", "0">>),
         Some(<<"8", "6", "4", "0", "0", "0", "0", "1">>),
         Some(<<"9", "9", "9", "9", "9", "9", "9", "9", "9">>),
         Some(<<"-", "5", "0", "0", "0">>), Some(<<"5", "0", "0", "0", ".", "7">>),
         Some(<<"1", "2", "0", "0", "0", "m", "s">>), Some(<<"a", "b", "c">>),
         Some(<<"1", "0", "m">>), Some(<<"1", "e", "9">>),
         Some(<<"\r", "5", "0", "0", "0">>), Some(<<"\f", "\t", "-", "1">>),
         Some(<<"\\u00a0", "5", "0", "0", "0", "\n">>) }

InitEnv ==
  /\ InitTool
  /\ apiKey = <<>>
  /\ HttpSurface(0)
  /\ ttlEnv \in EnvValues
  /\ ttlMs = Undefined
  /\ toolArgs = <<>>

\* The module is loaded: line 77 computes the TTL, and in stdio mode the last
\* statement creates and connects the server of the process (lines 404-411); in
\* HTTP mode the load ends with app.listen and creates no server.
LoadModule ==
  /\ ttlMs = Undefined
  /\ ttlMs' = Some(CacheTtl(ttlEnv))
  /\ servers' = IF isHttpMode THEN servers ELSE servers + 1
  /\ UNCHANGED <<ttlEnv, toolArgs>>
  /\ UNCHANGED <<apiKey, sseTransports, sse, mcp, uuids, dispatched, lookups,
                 reqCount, lastReq, lastRes>>
  /\ UNCHANGED toolVars

NextEnv == LoadModule

SpecEnv == InitEnv /\ [][NextEnv]_vars

(* C13: whatever PROVIDER_CACHE_TTL_MS holds, the TTL computed at process start
   is an integer between 1000 and 86400000 milliseconds. *)
C13_TtlAlwaysInRange ==
  ttlMs # Undefined =>
    /\ ~ttlMs[1].nan
    /\ ttlMs[1].val >= TTL_MIN
    /\ ttlMs[1].val <= TTL_MAX

----------------------------------------------------------------------------
(* Release of the stateless-HTTP server instances *)

\* Exchange i is over: its connection has closed and its handler has run to the
\* end, through the try block or through the catch.
McpOver(i) == ~mcp[i].open /\ mcp[i].pc \in {"listening", "failed"}

(* C14: every POST /mcp that passes the gate creates one server instance and one
   transport, and once the exchange is over, with the connection closed at any
   point of the handler, that transport and that server have been closed. *)
C14_ClosedConnectionReleasesServer ==
  /\ servers >= Len(mcp)
  /\ \A i \in 1..Len(mcp) : McpOver(i) => mcp[i].released

----------------------------------------------------------------------------
(* The fingerprint specification: two tool calls whose arguments objects are
   drawn at the start.  An arguments object is the sequence of its properties
   in the order the client wrote them, each a <<name, value>> pair. *)

\* The value of property name of the object, undefined when it has none.
Field(raw, name) ==
  IF \E i \in 1..Len(raw) : raw[i][1] = name
    THEN Some(raw[CHOOSE i \in 1..Len(raw) : raw[i][1] = name][2])
    ELSE Undefined

\* The object the handler is called with: the properties of inputSchema, by name.
ParseArgs(raw) ==
  [query |-> Field(raw, "query")[1],
   depth |-> Field(raw, "depth"),
   breadth |-> Field(raw, "breadth"),
   existingLearnings |-> Field(raw, "existingLearnings"),
   goal |-> Field(raw, "goal"),
   flags |-> Field(raw, "flags")]

Q1 == <<"query", "q1">>
Q2 == <<"query", "q2">>
D2 == <<"depth", 2>>
D3 == <<"depth", 3>>
B2 == <<"breadth", 2>>
B3 == <<"breadth", 3>>
L0 == <<"existingLearnings", <<>> >>
L1 == <<"existingLearnings", <<"known">> >>
G1 == <<"goal", "survey">>
G2 == <<"goal", "compare">>
F1 == <<"flags", [grounding |-> Some(TRUE), urlContext |-> Undefined]>>

\* Arguments objects: the same four values in different property orders and with
\* different goal and flags, and objects differing in one of the four values.
RawArgs ==
  { <<Q1>>, <<Q2>>, <<Q1, G1>>, <<F1, Q1, G2>>, <<Q1, L0>>, <<Q1, L1>>,
    <<Q1, D2>>, <<D2, Q1>>, <<Q1, D3>>, <<Q1, B2>>, <<Q1, B3>>,
    <<Q1, D2, B3, L1>>, <<L1, B3, D2, Q1>>, <<G1, Q1, F1, D2, B3, L1>>,
    <<Q1, D3, B2, L1>>, <<Q2, D2, B3, L1>> }

\* The two calls compared.
KeyCalls == {1, 2}

InitKey ==
  /\ InitTool
  /\ HttpIdle
  /\ ttlEnv = Undefined
  /\ ttlMs = Some(Num(MCP_CACHE_TTL_MS))
  /\ toolArgs \in [KeyCalls -> RawArgs]

NextKey ==
  \/ \E c \in KeyCalls : StartCall(c, ParseArgs(toolArgs[c]))
  \/ \E c \in KeyCalls : ResearchReturns(c, PastResearch, FileOk)
  \/ \E c \in KeyCalls : ResearchThrows(c, "pipeline failed")
  \/ \E c \in KeyCalls : UploadReturns(c)
  \/ \E c \in KeyCalls : UploadThrows(c)

SpecKey == InitKey /\ [][NextKey]_vars

\* The four values the handler has in hand for an arguments object (line 113).
FourOf(raw) ==
  <<Field(raw, "query"), Field(raw, "depth"), Field(raw, "breadth"),
    IF Field(raw, "existingLearnings") = Undefined THEN <<>>
    ELSE Field(raw, "existingLearnings")[1]>>

SameFour(c, d) == FourOf(toolArgs[c]) = FourOf(toolArgs[d])

(* C15: two calls derive the same fingerprint exactly when they agree on query,
   depth, breadth and existingLearnings, whatever the order of the properties
   and whatever goal and flags hold: calls that agree share one cache entry (the
   later one is served the entry of the earlier one), calls that differ in one
   of the four have an entry each. *)
C15_FingerprintIsTheFourFields ==
  /\ [](\A c, d \in KeyCalls :
          (pc[c] # "idle" /\ pc[d] # "idle") =>
            (SameFour(c, d) <=> CacheKey(c) = CacheKey(d)))
  /\ [](Len(cache) =
          Cardinality({FourOf(toolArgs[c]) : c \in {d \in KeyCalls : Computed(d)}}))
  /\ [][\A c, d \in KeyCalls :
          (Computed(c) /\ Starts(d)) =>
            IF SameFour(c, d)
              THEN pc'[d] = "done" /\ ret'[d] = ret[c] /\ cache' = cache
              ELSE pc'[d] = "pipeline-invoked" /\ lookup'[d] = "absent"]_vars

\* Two calls whose objects differ in property order, goal and flags only: the
\* second was served the first one's entry.  (The objects of the other pairs
\* differ in one of the four values.)
C15_Witness ==
  \E c, d \in KeyCalls :
    /\ toolArgs[c] = <<Q1, D2, B3, L1>>
    /\ toolArgs[d] = <<G1, Q1, F1, D2, B3, L1>>
    /\ Computed(c)
    /\ ServedFromCache(d) /\ ret[d] = ret[c]
    /\ Len(cache) = 1

----------------------------------------------------------------------------
(* Order of the steps of a cache-miss call *)

\* The entries of ch whose value call c built.
BuiltBy(ch, c) == {i \in 1..Len(ch) : ch[i].value.oid = c}

\* An entry built by call c is in the cache after this step and was not before.
WritesCache(c) ==
  \E i \in BuiltBy(cache', c) :
    \A j \in BuiltBy(cache, c) : cache[j] # cache'[i]

(* C16: within a cache-miss call the pipeline is invoked first; the body, its
   size and the delivery mode are computed only once the pipeline has returned;
   an upload is attempted only after that decision; the cache is written only
   after the pipeline has returned and, for an offloaded result, only after the
   upload has returned or failed; the call returns with the cache written. *)
C16_StepsInOrder ==
  /\ [](\A c \in Calls :
          BuiltBy(cache, c) # {} => (Computed(c) /\ result[c] # NoResearch))
  /\ [][\A c \in Calls :
          /\ (pc[c] # "pipeline-invoked" /\ pc'[c] = "pipeline-invoked") =>
               /\ pc[c] = "idle"
               /\ result'[c] = NoResearch /\ reportContent'[c] = NoText
               /\ researchCalls' = researchCalls + 1
               /\ uploadCalls' = uploadCalls
          /\ reportContent'[c] # reportContent[c] =>
               /\ pc[c] = "pipeline-invoked"
               /\ result'[c] # NoResearch
               /\ pc'[c] \in {"uploading", "done"}
          /\ (pc[c] # "uploading" /\ pc'[c] = "uploading") =>
               /\ pc[c] = "pipeline-invoked"
               /\ uploadCalls' = uploadCalls + 1
               /\ UseUrlMode(isHttpMode, ReportSizeKB(reportContent'[c]))
               /\ cache' = cache
          /\ WritesCache(c) =>
               /\ result'[c] # NoResearch
               /\ pc'[c] = "done" /\ ret'[c].oid = c
               /\ pc[c] = IF Offloaded(ret'[c]) THEN "uploading"
                          ELSE "pipeline-invoked"
          /\ (pc[c] # "done" /\ Computed(c)') =>
               /\ WritesCache(c)
               /\ StillCached(c)']_vars

\* One call returned an uploaded report, another an inline one, and both
\* results are in the cache.
C16_Witness ==
  \E c, d \in Calls :
    /\ Computed(c) /\ Offloaded(ret[c]) /\ StillCached(c)
    /\ Computed(d) /\ ~Offloaded(ret[d]) /\ StillCached(d)
    /\ uploadCalls = 1 /\ researchCalls = 2

----------------------------------------------------------------------------
(* The race specification: identical tool calls, one more than in the cache
   specification, which may overlap in any way. *)

RaceCalls == 1..(MaxCalls + 1)

RaceInput == ToolInput("q1", Undefined, Undefined, Undefined)

InitRace ==
  /\ isHttpMode \in BOOLEAN
  /\ now = 0
  /\ cache = <<>>
  /\ pc = [c \in RaceCalls |-> "idle"]
  /\ args = [c \in RaceCalls |-> NoArgs]
  /\ result = [c \in RaceCalls |-> NoResearch]
  /\ reportContent = [c \in RaceCalls |-> NoText]
  /\ ret = [c \in RaceCalls |-> NoReturn]
  /\ lookup = [c \in RaceCalls |-> "none"]
  /\ doneAt = [c \in RaceCalls |-> 0]
  /\ gcsError = [c \in RaceCalls |-> FALSE]
  /\ researchCalls = 0
  /\ uploadCalls = 0
  /\ HttpIdle
  /\ EnvStart

NextRace ==
  \/ \E c \in RaceCalls : StartCall(c, RaceInput)
  \/ \E c \in RaceCalls, r \in ResearchResults : ResearchReturns(c, r, FileOk)
  \/ \E c \in RaceCalls : ResearchThrows(c, "pipeline failed")
  \/ \E c \in RaceCalls : UploadReturns(c)
  \/ \E c \in RaceCalls : UploadThrows(c)
  \/ \E t \in TimePoints : Tick(t)

SpecRace == InitRace /\ [][NextRace]_vars

\* The cache's entry for key k (k is cached).
EntryOf(ch, k) == ch[LruIndex(ch, k)]

\* The cache holds an entry for k that has not expired.
Live(k) == k \in Keys(cache) /\ ~LruIsStale(EntryOf(cache, k), now)

(* C17: every call that misses the cache invokes the pipeline, also while an
   identical call is still in flight; the cache never holds two entries for one
   fingerprint; a call that completes successfully leaves its own result as the
   fingerprint's entry, replacing whatever an identical call wrote before, the
   entry changes in no other way, and a hit returns the entry as it stands. *)
C17_LastWriteWins ==
  /\ [](researchCalls =
          Cardinality({c \in RaceCalls : lookup[c] \in {"absent", "stale"}}))
  /\ [](\A i, j \in 1..Len(cache) : cache[i].key = cache[j].key => i = j)
  /\ [][/\ \A c \in RaceCalls :
             /\ (Starts(c) /\ lookup'[c] # "hit") =>
                  /\ pc'[c] = "pipeline-invoked"
                  /\ researchCalls' = researchCalls + 1
             /\ Writes(c) =>
                  EntryOf(cache', CacheKey(c)) =
                    [key |-> CacheKey(c), value |-> ret'[c], start |-> now]
             /\ (Starts(c) /\ lookup'[c] = "hit") =>
                  /\ Live(CacheKey(c)')
                  /\ ret'[c] = EntryOf(cache, CacheKey(c)').value
                  /\ NoPipelineNoUpload
        /\ \A k \in Keys(cache) \cap Keys(cache') :
             EntryOf(cache', k).value # EntryOf(cache, k).value =>
               \E c \in RaceCalls :
                 /\ Writes(c) /\ CacheKey(c) = k
                 /\ ret'[c] = EntryOf(cache', k).value]_vars

\* Two identical calls both missed an empty cache and both completed; the cache
\* holds the result of one of them only, and a third call was served that one.
C17_Witness ==
  \E c, d, e \in RaceCalls :
    /\ lookup[c] = "absent" /\ lookup[d] = "absent"
    /\ Computed(c) /\ Computed(d) /\ c # d
    /\ researchCalls = 2
    /\ Len(cache) = 1 /\ cache[1].value = ret[d] /\ ret[d] # ret[c]
    /\ ServedFromCache(e) /\ lookup[e] = "hit" /\ ret[e] = ret[d]

\* The step is the return of call c through the outer catch.
Fails(c) == pc[c] = "pipeline-invoked" /\ pc'[c] = "error-result"

\* No cache entry holds an error result, and every entry was built by a call
\* whose pipeline invocation returned.
OnlySuccessesCached ==
  \A i \in 1..Len(cache) :
    /\ TextOf(cache[i].value).kind # "error"
    /\ \E c \in RaceCalls :
         /\ cache[i].value.oid = c /\ cache[i].key = CacheKey(c)
         /\ Computed(c) /\ result[c] # NoResearch

(* C18 as stated: a call whose pipeline invocation fails leaves the cache as it
   was, no entry holds an error result, and an identical call that starts after
   a failed one invokes the pipeline again. *)
C18_RetryAlwaysInvokesPipeline ==
  /\ []OnlySuccessesCached
  /\ [][\A c, d \in RaceCalls :
          /\ Fails(c) => cache' = cache
          /\ (pc[c] = "error-result" /\ Starts(d) /\ CacheKey(d)' = CacheKey(c)) =>
               /\ pc'[d] = "pipeline-invoked"
               /\ researchCalls' = researchCalls + 1]_vars

(* C18: the return through the outer catch writes nothing to the cache, no
   entry holds an error result and every entry was built by a call whose
   pipeline invocation succeeded; an identical call that starts after a failed
   one invokes the pipeline again unless the cache holds a live entry for the
   fingerprint, written by another identical call that succeeded, in which case
   it is served that entry. *)
C18_FailureWritesNothing ==
  /\ []OnlySuccessesCached
  /\ [](\A c \in RaceCalls : pc[c] = "error-result" => BuiltBy(cache, c) = {})
  /\ [][\A c, d \in RaceCalls :
          /\ Fails(c) => cache' = cache
          /\ (pc[c] = "error-result" /\ Starts(d) /\ CacheKey(d)' = CacheKey(c)) =>
               IF Live(CacheKey(c))
                 THEN /\ pc'[d] = "done"
                      /\ ret'[d] = EntryOf(cache, CacheKey(c)).value
                      /\ ret'[d].oid # c
                      /\ NoPipelineNoUpload
                 ELSE /\ pc'[d] = "pipeline-invoked"
                      /\ researchCalls' = researchCalls + 1]_vars

\* A call failed, the cache stayed empty, and an identical call found nothing
\* cached and had the pipeline invoked a second time.
C18_Witness ==
  \E c, d \in RaceCalls :
    /\ pc[c] = "error-result"
    /\ CacheKey(d) = CacheKey(c)
    /\ lookup[d] = "absent" /\ pc[d] = "pipeline-invoked"
    /\ researchCalls = 2
    /\ cache = <<>>

\* Call c returned a result whose reportUrl is the upload error marker.
MarkerResult(c) ==
  /\ Computed(c) /\ gcsError[c]
  /\ ret[c].metadata.reportUrl = UPLOAD_ERROR_MARKER

\* Call d starts in this step, with the fingerprint of c, within the TTL of c's
\* return.
StartsWithinTtlOf(d, c) ==
  /\ Starts(d) /\ CacheKey(d)' = CacheKey(c)
  /\ now - doneAt[c] <= MCP_CACHE_TTL_MS

\* The storage error of call c is caught in this step.
UploadFails(c) == pc[c] = "uploading" /\ gcsError'[c]

(* C20 as stated: a failed upload leaves the marker result in the cache under
   the call's fingerprint, and every identical call that starts within the TTL
   returns that result, with no pipeline invocation and no upload attempt. *)
C20_MarkerResultAlwaysReused ==
  [][\A c, d \in RaceCalls :
       /\ UploadFails(c) => (MarkerResult(c)' /\ StillCached(c)')
       /\ (MarkerResult(c) /\ StartsWithinTtlOf(d, c)) =>
            /\ pc'[d] = "done" /\ ret'[d] = ret[c]
            /\ NoPipelineNoUpload]_vars

(* C20: a failed upload leaves the marker result in the cache under the call's
   fingerprint, with the age of a fresh entry; every identical call that starts
   within the TTL while that result is still the fingerprint's entry returns it,
   with no pipeline invocation and no upload attempt. *)
C20_MarkerResultReusedWhileCached ==
  [][\A c, d \in RaceCalls :
       /\ UploadFails(c) =>
            /\ MarkerResult(c)' /\ StillCached(c)'
            /\ EntryOf(cache', CacheKey(c)).start = now
       /\ (MarkerResult(c) /\ StillCached(c) /\ StartsWithinTtlOf(d, c)) =>
            /\ pc'[d] = "done" /\ ret'[d] = ret[c]
            /\ NoPipelineNoUpload]_vars

\* An upload failed and a later identical call was served the marker result: one
\* pipeline invocation and one upload attempt in all.
C20_Witness ==
  \E c, d \in RaceCalls :
    /\ MarkerResult(c) /\ StillCached(c)
    /\ ServedFromCache(d) /\ ret[d] = ret[c]
    /\ researchCalls = 1 /\ uploadCalls = 1

----------------------------------------------------------------------------
(* The report body *)

\* The pipeline of call c has returned.
PipelineReturned(c) == result[c] # NoResearch

(* C19: once the pipeline has returned, the call has a non-empty report body and
   goes on to delivery, never to error-result.  The body is the pipeline's
   content when that is non-empty; otherwise, with a non-empty reportPath, what
   was read from the file or a placeholder (the read failed, or gave nothing);
   with neither, the no-content placeholder.  The size reported and the text
   delivered are those of that body. *)
C19_BodyNeverEmpty ==
  \A c \in Calls :
    PipelineReturned(c) =>
      /\ reportContent[c].bytes > 0
      /\ pc[c] \in {"uploading", "done"}
      /\ ~Falsy(result[c].content) => reportContent[c] = result[c].content
      /\ (Falsy(result[c].content) /\ ~NoPath(result[c].reportPath)) =>
           \/ reportContent[c] \in {ReadErrorBody, NoContentBody}
           \/ \E f \in FileReads : f[1] = "ok" /\ reportContent[c] = f[2]
      /\ (Falsy(result[c].content) /\ NoPath(result[c].reportPath)) =>
           reportContent[c] = NoContentBody
      /\ pc[c] = "done" =>
           /\ ret[c].metadata.reportSizeKB = Some(ReportSizeKB(reportContent[c]))
           /\ ~Offloaded(ret[c]) => Inline(ret[c], reportContent[c])

\* One call whose report file could not be read and one whose pipeline gave
\* neither content nor a path: both were delivered with a placeholder body.
C19_Witness ==
  \E c, d \in Calls :
    /\ PipelineReturned(c) /\ ~NoPath(result[c].reportPath)
    /\ reportContent[c] = ReadErrorBody
    /\ PipelineReturned(d) /\ NoPath(result[d].reportPath)
    /\ reportContent[d] = NoContentBody
    /\ Computed(c) /\ Computed(d)

----------------------------------------------------------------------------
(* The arguments of the pipeline invocation *)

DEFAULT_DEPTH == 2

DEFAULT_BREADTH == 2

\* a ?? b
OrElse(opt, default) == IF opt = Undefined THEN default ELSE opt[1]

\* The object research() is called with (lines 128-133), from the handler's
\* destructured parameters: depth ?? 2, breadth ?? 2.
PipelineArgs(a) ==
  [query |-> a.query,
   depth |-> OrElse(a.depth, DEFAULT_DEPTH),
   breadth |-> OrElse(a.breadth, DEFAULT_BREADTH),
   existingLearnings |-> a.existingLearnings]

(* C21: two calls that would invoke the pipeline with the same arguments, the
   defaults applied, derive the same fingerprint, and a call that starts while
   the result the other call computed is cached is served that result, with no
   pipeline invocation and no upload. *)
C21_DefaultsShareAnEntry ==
  /\ [](\A c, d \in KeyCalls :
          (pc[c] # "idle" /\ pc[d] # "idle"
             /\ PipelineArgs(args[c]) = PipelineArgs(args[d])) =>
            CacheKey(c) = CacheKey(d))
  /\ [][\A c, d \in KeyCalls :
          (Computed(c) /\ StillCached(c) /\ Starts(d)
             /\ PipelineArgs(args'[d]) = PipelineArgs(args[c])) =>
            /\ pc'[d] = "done" /\ ret'[d] = ret[c]
            /\ NoPipelineNoUpload]_vars

====
